---- MODULE Spec2Model ----
(***************************************************************************)
(* Model of the python-executor service: KernelManager (the session       *)
(* table and its idle reaper), CodeExecutor (validate_code, execute_code)  *)
(* and the /execute request handler that ties them together.               *)
(*                                                                         *)
(* Scheduling: everything runs on one asyncio event loop, so the code      *)
(* between two real suspension points is one atomic action.  The only      *)
(* suspension points of a request are the wait for kernel readiness        *)
(* (kernel_manager.py:104) and, for the reaper, its sleep                  *)
(* (kernel_manager.py:44); shutdown_all suspends once, awaiting the        *)
(* cancelled reaper task (kernel_manager.py:192); cleanup_kernel and       *)
(* execute_code contain no await that yields.                              *)
(***************************************************************************)
EXTENDS Integers, Sequences, FiniteSets, TLC

VARIABLES
    kernels,        \* KernelManager.kernels: user_id -> kernel id
    last_activity,  \* KernelManager.last_activity: user_id -> time
    working_dirs,   \* KernelManager.working_dirs: user_id -> directory
    cleanup_task,   \* KernelManager._cleanup_task: "none" | "sleeping" |
                    \*   "cancelling" (cancel requested) | "cancelled" (loop left)
    serving,        \* whether the service still takes requests (lifespan not yet ended)
    backend,        \* the kernel processes ever started: kernel id -> record
    next_kernel,    \* the id the next started kernel gets
    now,            \* datetime.now(), in idle-timeout units
    pending,        \* the /execute requests suspended in the wait for readiness
    last,           \* the outcome of the handler call that completed last
    vcode,          \* input of a stand-alone validate_code call
    vresult         \* its returned (is_valid, error_message), or <<>> before the call

vars == <<kernels, last_activity, working_dirs, cleanup_task, serving, backend,
          next_kernel, now, pending, last, vcode, vresult>>

----------------------------------------------------------------------------
(* Bounds of the model *)

MaxTime == 2
MaxKernels == 2
MaxCodeLen == 4

(* Configuration, scaled down *)

timeout_minutes == 2
max_kernels_per_user == 1

timeout == timeout_minutes

\* user ids are strings; a string is modelled as the sequence of its characters
\* so that str.startswith can be computed
UserIds == { <<"u">>, <<"u", "1">> }

WorkDirs == {"d1"}

ExecTimeouts == {1}

KernelIds == 1..MaxKernels

NoKernel == 0

----------------------------------------------------------------------------
(* CodeExecutor.validate_code                                              *)
(*                                                                         *)
(* A code string is modelled as a sequence of chunks, each chunk standing  *)
(* for the characters it spells; the string is their concatenation.  The   *)
(* chunks are chosen so that a denylisted pattern occurs in the            *)
(* concatenation exactly when its chunk sequence occurs in the chunk       *)
(* sequence.                                                               *)

Chunks == {"os.system", "subprocess.", "__import__", "eval", "exec",
           "(", ")", " ", "x"}

RECURSIVE SeqsUpTo(_, _)
SeqsUpTo(S, n) ==
    IF n = 0 THEN { <<>> }
    ELSE LET shorter == SeqsUpTo(S, n - 1)
         IN  shorter \cup { Append(s, c) : s \in shorter, c \in S }

Codes == SeqsUpTo(Chunks, MaxCodeLen)

\* code.strip(): drop leading and trailing whitespace
RECURSIVE LStrip(_)
LStrip(code) ==
    IF code # <<>> /\ Head(code) = " " THEN LStrip(Tail(code)) ELSE code

RECURSIVE RStrip(_)
RStrip(code) ==
    IF code # <<>> /\ code[Len(code)] = " "
    THEN RStrip(SubSeq(code, 1, Len(code) - 1))
    ELSE code

strip(code) == RStrip(LStrip(code))

\* pattern in code
Contains(code, pattern) ==
    \E i \in 1..(Len(code) - Len(pattern) + 1) :
        SubSeq(code, i, i + Len(pattern) - 1) = pattern

\* the list dangerous_patterns, in its order
dangerous_patterns ==
    << <<"os.system">>, <<"subprocess.">>, <<"__import__">>,
       <<"eval", "(">>, <<"exec", "(">> >>

\* the for loop over the patterns made to report its last hit
FirstPattern_Last(code) ==
    IF \E i \in 1..Len(dangerous_patterns) : Contains(code, dangerous_patterns[i])
    THEN CHOOSE i \in 1..Len(dangerous_patterns) :
            /\ Contains(code, dangerous_patterns[i])
            /\ \A j \in (i + 1)..Len(dangerous_patterns) :
                  ~Contains(code, dangerous_patterns[j])
    ELSE 0

\* the first pattern of the list found in the code (0 if none): the for loop
\* returns at its first hit
FirstPattern(code) ==
    IF \E i \in 1..Len(dangerous_patterns) : Contains(code, dangerous_patterns[i])
    THEN CHOOSE i \in 1..Len(dangerous_patterns) :
            /\ Contains(code, dangerous_patterns[i])
            /\ \A j \in 1..(i - 1) : ~Contains(code, dangerous_patterns[j])
    ELSE 0

(* compile(code, '<string>', 'exec') on the strings the chunks can spell.  *)
(* Lexing: adjacent name characters merge into one NAME; "os.system" is    *)
(* NAME . NAME and "subprocess." is NAME . ; whitespace separates tokens.  *)
(* Tokens: "N" name, "D" dot, "L" (, "R" ).                                *)
RECURSIVE Lex(_, _)
Lex(code, inName) ==
    IF code = <<>> THEN <<>>
    ELSE LET c    == Head(code)
             rest == Tail(code)
             name == IF inName THEN <<>> ELSE <<"N">>
         IN  CASE c = " "           -> Lex(rest, FALSE)
               [] c = "("           -> <<"L">> \o Lex(rest, FALSE)
               [] c = ")"           -> <<"R">> \o Lex(rest, FALSE)
               [] c = "os.system"   -> name \o <<"D", "N">> \o Lex(rest, TRUE)
               [] c = "subprocess." -> name \o <<"D">> \o Lex(rest, FALSE)
               [] OTHER             -> name \o Lex(rest, TRUE)

Tok(toks, i) == IF i >= 1 /\ i <= Len(toks) THEN toks[i] ELSE "EOF"

(* Grammar of a one-line expression statement over these tokens:           *)
(*   expr    ::= atom trailer*                                             *)
(*   atom    ::= N | L R | L expr R                                        *)
(*   trailer ::= D N | L R | L expr R                                      *)
(* Each parser returns the index after what it consumed, 0 on a syntax     *)
(* error.                                                                  *)
RECURSIVE ParseExpr(_, _)
RECURSIVE ParseTrailers(_, _)
ParseParens(toks, i) ==
    \* toks[i] = "L"
    IF Tok(toks, i + 1) = "R" THEN i + 2
    ELSE LET j == ParseExpr(toks, i + 1)
         IN  IF j # 0 /\ Tok(toks, j) = "R" THEN j + 1 ELSE 0

ParseTrailers(toks, i) ==
    CASE Tok(toks, i) = "D" ->
            IF Tok(toks, i + 1) = "N" THEN ParseTrailers(toks, i + 2) ELSE 0
      [] Tok(toks, i) = "L" ->
            LET j == ParseParens(toks, i)
            IN  IF j # 0 THEN ParseTrailers(toks, j) ELSE 0
      [] OTHER -> i

ParseExpr(toks, i) ==
    CASE Tok(toks, i) = "N" -> ParseTrailers(toks, i + 1)
      [] Tok(toks, i) = "L" ->
            LET j == ParseParens(toks, i)
            IN  IF j # 0 THEN ParseTrailers(toks, j) ELSE 0
      [] OTHER -> 0

\* compile succeeds: a blank line is an empty module; otherwise there is no
\* unexpected indent and the line is one expression
Compiles(code) ==
    \/ \A i \in 1..Len(code) : code[i] = " "
    \/ /\ Head(code) # " "
       /\ LET toks == Lex(code, FALSE)
          IN  ParseExpr(toks, 1) = Len(toks) + 1

\* validate_code without the whitespace test of its first check
validate_code_NoStrip(code) ==
    IF code = <<>>
    THEN <<FALSE, <<"Code cannot be empty">>>>
    ELSE IF FirstPattern(code) # 0
    THEN <<FALSE, <<"Potentially dangerous operation detected: ">>
                   \o dangerous_patterns[FirstPattern(code)]>>
    ELSE IF Compiles(code)
    THEN <<TRUE, <<>>>>
    ELSE <<FALSE, <<"Syntax error: ", "invalid syntax">>>>

\* the returned tuple (is_valid, error_message); a message is the sequence of
\* its parts and "" is the empty sequence
validate_code(code) ==
    IF code = <<>> \/ strip(code) = <<>>
    THEN <<FALSE, <<"Code cannot be empty">>>>
    ELSE IF FirstPattern(code) # 0
    THEN <<FALSE, <<"Potentially dangerous operation detected: ">>
                   \o dangerous_patterns[FirstPattern(code)]>>
    ELSE IF Compiles(code)
    THEN <<TRUE, <<>>>>
    ELSE <<FALSE, <<"Syntax error: ", "invalid syntax">>>>

----------------------------------------------------------------------------
(* KernelManager: the session table                                        *)

\* the manager's three maps and the kernel processes, as one value the
\* methods below transform
Table == [kernels |-> kernels, last_activity |-> last_activity,
          working_dirs |-> working_dirs, backend |-> backend]

Without(f, key) == [x \in DOMAIN f \ {key} |-> f[x]]

Put(f, key, val) == [x \in DOMAIN f \cup {key} |-> IF x = key THEN val ELSE f[x]]

\* str.startswith
StartsWith(uid, prefix) ==
    /\ Len(prefix) <= Len(uid)
    /\ SubSeq(uid, 1, Len(prefix)) = prefix

\* km.shutdown_kernel: the process is terminated, or the call raises and the
\* process is left in an unknown state; either way nothing refers to it any more
Shutdown(b, k, ok) ==
    [b EXCEPT ![k] = [state |-> IF ok THEN "dead" ELSE "kill_failed",
                      owner |-> <<>>, busy |-> FALSE]]

\* cleanup_kernel that forgets the entries without shutting the kernel down
cleanup_kernel_NoShutdown(S, user_id, ok) ==
    IF user_id \in DOMAIN S.kernels
    THEN [kernels       |-> Without(S.kernels, user_id),
          last_activity |-> Without(S.last_activity, user_id),
          working_dirs  |-> Without(S.working_dirs, user_id),
          backend       |-> S.backend]
    ELSE S

\* cleanup_kernel that keeps the entries when the shutdown raises
cleanup_kernel_KeepsOnFailure(S, user_id, ok) ==
    IF user_id \in DOMAIN S.kernels /\ ok
    THEN [kernels       |-> Without(S.kernels, user_id),
          last_activity |-> Without(S.last_activity, user_id),
          working_dirs  |-> Without(S.working_dirs, user_id),
          backend       |-> Shutdown(S.backend, S.kernels[user_id], ok)]
    ELSE S

\* cleanup_kernel; ok: whether km.shutdown_kernel(now=True) returns normally
cleanup_kernel(S, user_id, ok) ==
    IF user_id \in DOMAIN S.kernels
    THEN [kernels       |-> Without(S.kernels, user_id),
          last_activity |-> Without(S.last_activity, user_id),
          working_dirs  |-> Without(S.working_dirs, user_id),
          backend       |-> Shutdown(S.backend, S.kernels[user_id], ok)]
    ELSE S

\* the reuse test with the window one unit short
IsFresh_OneShort(S, user_id, t0) == t0 - S.last_activity[user_id] < timeout - 1

\* the reuse test of get_or_create_kernel
IsFresh(S, user_id, t0) == t0 - S.last_activity[user_id] < timeout

\* the quota count of get_or_create_kernel
user_kernel_count(S, user_id) ==
    Cardinality({uid \in DOMAIN S.kernels : StartsWith(uid, user_id)})

\* km.start_kernel(): a new kernel process, with the next kernel id
StartKernel(b, k, user_id) ==
    [x \in DOMAIN b |->
        IF x = k THEN [state |-> "starting", owner |-> user_id, busy |-> FALSE]
        ELSE b[x]]

(* get_or_create_kernel up to its suspension point, the wait for readiness: *)
(* reuse, or expiry cleanup, quota check and kernel start.  k is the id of  *)
(* the kernel it would start, ok the outcome of the expiry shutdown.        *)
CreateBegin(S, user_id, t0, k, ok) ==
    IF user_id \in DOMAIN S.kernels /\ IsFresh(S, user_id, t0)
    THEN [S       |-> [S EXCEPT !.last_activity[user_id] = t0],
          outcome |-> "reuse",
          km      |-> S.kernels[user_id],
          prev    |-> NoKernel]
    ELSE LET S1   == cleanup_kernel(S, user_id, ok)
             prev == IF user_id \in DOMAIN S.kernels
                     THEN S.kernels[user_id] ELSE NoKernel
         IN  IF user_kernel_count(S1, user_id) >= max_kernels_per_user
             THEN [S |-> S1, outcome |-> "quota", km |-> NoKernel, prev |-> prev]
             ELSE [S       |-> [S1 EXCEPT !.backend = StartKernel(S1.backend, k, user_id)],
                   outcome |-> "start",
                   km      |-> k,
                   prev    |-> prev]

\* the stores without the one of working_dirs
CreateFinish_NoWorkdir(S, user_id, working_dir, km, t0) ==
    [kernels       |-> Put(S.kernels, user_id, km),
     last_activity |-> Put(S.last_activity, user_id, t0),
     working_dirs  |-> S.working_dirs,
     backend       |-> [S.backend EXCEPT ![km].state = "alive"]]

\* get_or_create_kernel after the kernel reported ready: bootstrap code, then
\* the three stores
CreateFinish(S, user_id, working_dir, km, t0) ==
    [kernels       |-> Put(S.kernels, user_id, km),
     last_activity |-> Put(S.last_activity, user_id, t0),
     working_dirs  |-> Put(S.working_dirs, user_id, working_dir),
     backend       |-> [S.backend EXCEPT ![km].state = "alive"]]

\* the timeout branch without its km.shutdown_kernel()
CreateTimeout_NoShutdown(S, km) == S

\* get_or_create_kernel when the wait for readiness timed out
CreateTimeout(S, km) ==
    [S EXCEPT !.backend = Shutdown(S.backend, km, TRUE)]

\* the expiry test made strict
ExpiredUsers_Strict(S, t0) ==
    {user_id \in DOMAIN S.last_activity : t0 - S.last_activity[user_id] > timeout}

\* cleanup_expired_kernels at time t0; failed: the users whose shutdown raises
ExpiredUsers(S, t0) ==
    {user_id \in DOMAIN S.last_activity : t0 - S.last_activity[user_id] >= timeout}

RECURSIVE CleanupEach(_, _, _)
CleanupEach(S, users, failed) ==
    IF users = {} THEN S
    ELSE LET user_id == CHOOSE x \in users : TRUE
         IN  CleanupEach(cleanup_kernel(S, user_id, user_id \notin failed),
                         users \ {user_id}, failed)

cleanup_expired_kernels(S, t0, failed) == CleanupEach(S, ExpiredUsers(S, t0), failed)

\* a snapshot that lists only the owners active since time 0
get_kernel_info_Skips(S) ==
    [user_id \in {x \in DOMAIN S.kernels : S.last_activity[x] # 0} |->
        [kernel_id   |-> S.kernels[user_id],
         created_at  |-> S.last_activity[user_id],
         working_dir |-> IF user_id \in DOMAIN S.working_dirs
                         THEN S.working_dirs[user_id] ELSE "unknown",
         status      |-> IF S.backend[S.kernels[user_id]].state = "alive"
                         THEN "active" ELSE "dead"]]

\* get_kernel_info: the snapshot of the table
get_kernel_info(S) ==
    [user_id \in DOMAIN S.kernels |->
        [kernel_id   |-> S.kernels[user_id],
         created_at  |-> S.last_activity[user_id],
         working_dir |-> IF user_id \in DOMAIN S.working_dirs
                         THEN S.working_dirs[user_id] ELSE "unknown",
         status      |-> IF S.backend[S.kernels[user_id]].state = "alive"
                         THEN "active" ELSE "dead"]]

----------------------------------------------------------------------------
(* CodeExecutor.execute_code                                               *)

\* the record of an execute_code call: how it ended (status, exc), its
\* arguments, whether the kernel behind its client was alive (channel_open),
\* its local variables when it ended, and the messages it read
NoExec == [status |-> "none", exc |-> "", start |-> 0, timeout_s |-> 0,
           channel_open |-> TRUE,
           success |-> TRUE, output_parts |-> <<>>, error_parts |-> <<>>,
           result |-> "None", plots |-> <<>>, consumed |-> <<>>,
           loop_end |-> "not_entered"]

(* execute_code submits the code to the kernel (kc.execute), initialises   *)
(* its accumulators and then evaluates datetime.now().total_seconds() to   *)
(* compute the deadline.  A datetime has no total_seconds: the expression  *)
(* raises AttributeError outside the try block, so the call ends there     *)
(* with the accumulators as initialised and no message read.               *)
execute_code(S, km, t0, timeout_s) ==
    [S   |-> [S EXCEPT !.backend[km].busy = (S.backend[km].state = "alive")],
     res |-> [status |-> "raised", exc |-> "AttributeError",
              start |-> t0, timeout_s |-> timeout_s,
              channel_open |-> (S.backend[km].state = "alive"),
              success |-> TRUE, output_parts |-> <<>>, error_parts |-> <<>>,
              result |-> "None", plots |-> <<>>, consumed |-> <<>>,
              loop_end |-> "not_entered"]]

----------------------------------------------------------------------------------------------------------------------------------------
(* State *)

\* codes the requests carry: valid, denylisted, empty, syntactically wrong
RequestCodes == { <<"x">>, <<"eval", "(", "x", ")">>, <<>>, <<"(", "x">> }

\* the outcome of the handler call that completed last
NoCall == [path |-> "none", user_id |-> <<>>, ret |-> NoKernel,
           prev |-> NoKernel, http |-> 0, count |-> 0, exec |-> NoExec]

NoBackend == [state |-> "none", owner |-> <<>>, busy |-> FALSE]

Init ==
    /\ kernels = << >>
    /\ last_activity = << >>
    /\ working_dirs = << >>
    /\ cleanup_task = "none"
    /\ serving = TRUE
    /\ backend = [k \in KernelIds |-> NoBackend]
    /\ next_kernel = 1
    /\ now = 0
    /\ pending = {}
    /\ last = NoCall
    /\ vcode = <<>>
    /\ vresult = <<>>

SetTable(S) ==
    /\ kernels' = S.kernels
    /\ last_activity' = S.last_activity
    /\ working_dirs' = S.working_dirs
    /\ backend' = S.backend

----------------------------------------------------------------------------
(* The /execute handler (main.execute_code)                                *)

\* a handler that tears the session down as soon as its code is submitted
Executed_ThenCleanup(user_id, path, km, prev, S, timeout_s) ==
    LET ex == execute_code(S, km, now, timeout_s)
    IN  /\ SetTable(cleanup_kernel(ex.S, user_id, TRUE))
        /\ last' = [path |-> path, user_id |-> user_id, ret |-> km, prev |-> prev,
                    http |-> IF ex.res.status = "returned" THEN 200 ELSE 500,
                    count |-> 0,
                    exec |-> ex.res]

\* a handler whose execute_code call yields after submitting its code
Executed_StillReading(user_id, path, km, prev, S, timeout_s) ==
    LET ex == execute_code(S, km, now, timeout_s)
    IN  /\ SetTable(ex.S)
        /\ last' = last

\* the handler's response once get_or_create_kernel has returned km: it calls
\* execute_code without yielding; the AttributeError is caught by
\* `except Exception` and becomes a 500
Executed(user_id, path, km, prev, S, timeout_s) ==
    LET ex == execute_code(S, km, now, timeout_s)
    IN  /\ SetTable(ex.S)
        /\ last' = [path |-> path, user_id |-> user_id, ret |-> km, prev |-> prev,
                    http |-> IF ex.res.status = "returned" THEN 200 ELSE 500,
                    count |-> 0,
                    exec |-> ex.res]

\* a handler that answers 400 only after touching the owner's session
RequestRejected_Refreshes ==
    /\ serving
    /\ \E user_id \in UserIds, code \in RequestCodes :
        /\ ~validate_code(code)[1]
        /\ last' = [NoCall EXCEPT !.path = "rejected", !.user_id = user_id,
                                  !.http = 400]
        /\ last_activity' = [x \in DOMAIN last_activity |->
                                IF x = user_id THEN now ELSE last_activity[x]]
    /\ UNCHANGED <<kernels, working_dirs, cleanup_task, serving, backend,
                   next_kernel, now, pending, vcode, vresult>>

\* validate_code rejects the code: 400, nothing else happens
RequestRejected ==
    /\ serving
    /\ \E user_id \in UserIds, code \in RequestCodes :
        /\ ~validate_code(code)[1]
        /\ last' = [NoCall EXCEPT !.path = "rejected", !.user_id = user_id,
                                  !.http = 400]
    /\ UNCHANGED <<kernels, last_activity, working_dirs, cleanup_task, serving, backend,
                   next_kernel, now, pending, vcode, vresult>>

\* an accepted request whose owner has a fresh entry: reuse, then execute_code
RequestReuse ==
    /\ serving
    /\ \E user_id \in UserIds, code \in RequestCodes, timeout_s \in ExecTimeouts :
        /\ validate_code(code)[1]
        /\ LET r == CreateBegin(Table, user_id, now, next_kernel, TRUE)
           IN  /\ r.outcome = "reuse"
               /\ Executed(user_id, "reuse", r.km, r.prev, r.S, timeout_s)
    /\ UNCHANGED <<cleanup_task, serving, next_kernel, now, pending, vcode, vresult>>

\* an accepted request that get_or_create_kernel refuses with the 'maximum
\* kernel limit' RuntimeError: 500
RequestQuota ==
    /\ serving
    /\ \E user_id \in UserIds, code \in RequestCodes, ok \in BOOLEAN :
        /\ validate_code(code)[1]
        /\ LET r == CreateBegin(Table, user_id, now, next_kernel, ok)
           IN  /\ r.outcome = "quota"
               /\ SetTable(r.S)
               /\ last' = [NoCall EXCEPT !.path = "quota", !.user_id = user_id,
                                         !.prev = r.prev, !.http = 500]
    /\ UNCHANGED <<cleanup_task, serving, next_kernel, now, pending, vcode, vresult>>

\* an accepted request that starts a kernel and suspends in the wait for
\* readiness
RequestStart ==
    /\ serving
    /\ next_kernel <= MaxKernels
    /\ \E user_id \in UserIds, working_dir \in WorkDirs, code \in RequestCodes,
          timeout_s \in ExecTimeouts, ok \in BOOLEAN :
        /\ validate_code(code)[1]
        /\ LET r == CreateBegin(Table, user_id, now, next_kernel, ok)
           IN  /\ r.outcome = "start"
               /\ SetTable(r.S)
               /\ pending' = pending \cup
                    {[user_id |-> user_id, working_dir |-> working_dir,
                      timeout_s |-> timeout_s, km |-> r.km, prev |-> r.prev]}
    /\ next_kernel' = next_kernel + 1
    /\ UNCHANGED <<cleanup_task, serving, now, last, vcode, vresult>>

\* the kernel reported ready: get_or_create_kernel stores and returns it, and
\* the handler goes on to execute_code without yielding
ResumeReady ==
    /\ \E rq \in pending :
        /\ Executed(rq.user_id, "create", rq.km, rq.prev,
                    CreateFinish(Table, rq.user_id, rq.working_dir, rq.km, now),
                    rq.timeout_s)
        /\ pending' = pending \ {rq}
    /\ UNCHANGED <<cleanup_task, serving, next_kernel, now, vcode, vresult>>

\* the wait for readiness timed out: the kernel is shut down, RuntimeError, 500
ResumeTimeout ==
    /\ \E rq \in pending :
        /\ SetTable(CreateTimeout(Table, rq.km))
        /\ last' = [NoCall EXCEPT !.path = "start_timeout", !.user_id = rq.user_id,
                                  !.prev = rq.prev, !.http = 500]
        /\ pending' = pending \ {rq}
    /\ UNCHANGED <<cleanup_task, serving, next_kernel, now, vcode, vresult>>

----------------------------------------------------------------------------
(* The idle reaper, shutdown, the kernels and the clock                    *)

start_cleanup_task ==
    /\ serving
    /\ cleanup_task = "none"
    /\ cleanup_task' = "sleeping"
    /\ UNCHANGED <<kernels, last_activity, working_dirs, serving, backend, next_kernel,
                   now, pending, last, vcode, vresult>>

\* a reaper whose loop ends when a shutdown in its sweep raised
Sweep_StopsOnError ==
    /\ cleanup_task = "sleeping"
    /\ \E failed \in SUBSET ExpiredUsers(Table, now) :
          /\ SetTable(cleanup_expired_kernels(Table, now, failed))
          /\ cleanup_task' = IF failed = {} THEN "sleeping" ELSE "cancelled"
    /\ UNCHANGED <<serving, next_kernel, now, pending, last, vcode, vresult>>

\* one iteration of _periodic_cleanup after its sleep
Sweep ==
    /\ cleanup_task = "sleeping"
    /\ \E failed \in SUBSET ExpiredUsers(Table, now) :
          SetTable(cleanup_expired_kernels(Table, now, failed))
    /\ UNCHANGED <<cleanup_task, serving, next_kernel, now, pending, last, vcode, vresult>>

\* shutdown_all up to its await of the reaper task: every entry cleaned up,
\* the task's cancellation requested.  Without a running task it returns at
\* once.  It is called when the service stops (main.lifespan, the test
\* fixtures): no new request is taken afterwards, while suspended ones may
\* still resume
shutdown_all ==
    /\ \E failed \in SUBSET DOMAIN kernels :
          SetTable(CleanupEach(Table, DOMAIN kernels, failed))
    /\ cleanup_task' = IF cleanup_task = "sleeping" THEN "cancelling" ELSE cleanup_task
    /\ serving' = FALSE
    /\ UNCHANGED <<next_kernel, now, pending, last, vcode, vresult>>

\* _periodic_cleanup receives CancelledError in its sleep and leaves its
\* loop; the task is done, which lets the awaiting shutdown_all return
PeriodicCleanupCancelled ==
    /\ cleanup_task = "cancelling"
    /\ cleanup_task' = "cancelled"
    /\ UNCHANGED <<kernels, last_activity, working_dirs, serving, backend, next_kernel,
                   now, pending, last, vcode, vresult>>

\* GET /kernels outside production: the snapshot and its size; get_kernel_info
\* is one synchronous expression
get_kernels ==
    /\ last' = [NoCall EXCEPT !.path = "kernels", !.http = 200,
                              !.count = Cardinality(DOMAIN get_kernel_info(Table))]
    /\ UNCHANGED <<kernels, last_activity, working_dirs, cleanup_task, serving, backend,
                   next_kernel, now, pending, vcode, vresult>>

\* a kernel finishes the code it was running
KernelIdle ==
    /\ \E k \in KernelIds :
        /\ backend[k].busy
        /\ backend' = [backend EXCEPT ![k].busy = FALSE]
    /\ UNCHANGED <<kernels, last_activity, working_dirs, cleanup_task, serving,
                   next_kernel, now, pending, last, vcode, vresult>>

Tick ==
    /\ now < MaxTime
    /\ now' = now + 1
    /\ UNCHANGED <<kernels, last_activity, working_dirs, cleanup_task, serving, backend,
                   next_kernel, pending, last, vcode, vresult>>

Next ==
    \/ RequestRejected
    \/ RequestReuse
    \/ RequestQuota
    \/ RequestStart
    \/ ResumeReady
    \/ ResumeTimeout
    \/ start_cleanup_task
    \/ Sweep
    \/ shutdown_all
    \/ PeriodicCleanupCancelled
    \/ get_kernels
    \/ KernelIdle
    \/ Tick

Spec == Init /\ [][Next]_vars

\* the reaper's sleep always ends: asyncio wakes the task after 60 s, and no
\* other coroutine holds the event loop for ever
SpecFair == Spec /\ WF_vars(Sweep)

----------------------------------------------------------------------------
(* Properties                                                              *)

\* how a step shows that a get_or_create_kernel call for user_id began in it:
\* it completed at once (reuse, quota) or it suspended in the readiness wait
CallBegins(user_id) ==
    \/ /\ pending' = pending
       /\ last' # last
       /\ last'.path \in {"reuse", "quota"}
       /\ last'.user_id = user_id
    \/ \E rq \in pending' \ pending : rq.user_id = user_id

Terminated(k) == backend[k].state \in {"dead", "kill_failed"}

\* C1: for every owner prefix, the number of table entries whose owner id
\* starts with the prefix never exceeds max_kernels_per_user (so a further
\* creation under a full prefix must have failed with the quota error).
C1_PrefixCap ==
    \A prefix \in UserIds :
        Cardinality({uid \in DOMAIN kernels : StartsWith(uid, prefix)})
            <= max_kernels_per_user

\* C2: a get_or_create_kernel call for an owner whose entry is within the
\* idle window returns the kernel stored for the owner, starts no kernel,
\* leaves the table's keys, kernels and directories as they were, and sets
\* only that owner's last_activity, to now.
C2_ReuseWithinWindow ==
    [][\A user_id \in UserIds :
        ( /\ user_id \in DOMAIN kernels
          /\ now - last_activity[user_id] < timeout
          /\ CallBegins(user_id) )
        => /\ pending' = pending
           /\ last'.ret = kernels[user_id]
           /\ next_kernel' = next_kernel
           /\ \A k \in KernelIds : backend'[k].state = backend[k].state
           /\ kernels' = kernels
           /\ working_dirs' = working_dirs
           /\ last_activity' = [last_activity EXCEPT ![user_id] = now]
      ]_vars

\* a reuse that moved last_activity forward has happened
C2_Witness ==
    /\ last.path = "reuse"
    /\ last.exec.start > 0
    /\ last.ret # NoKernel

\* C3: a get_or_create_kernel call for an owner whose entry is past the idle
\* timeout shuts the old kernel down and removes the old entry in the step in
\* which it starts the new kernel, so the old kernel is already terminated
\* while the new one is starting; when the call returns, the returned kernel
\* differs from the old one and is the owner's entry.
C3_ExpiredRecreated ==
    /\ [][\A user_id \in UserIds :
            ( /\ user_id \in DOMAIN kernels
              /\ now - last_activity[user_id] >= timeout )
            => \A rq \in pending' \ pending :
                 rq.user_id = user_id
                 => /\ rq.prev = kernels[user_id]
                    /\ rq.km # kernels[user_id]
                    /\ backend[rq.km].state = "none"
                    /\ backend'[rq.km].state = "starting"
                    /\ backend'[kernels[user_id]].state \in {"dead", "kill_failed"}
                    /\ user_id \notin DOMAIN kernels'
         ]_vars
    /\ [][\A rq \in pending \ pending' :
            (rq.prev # NoKernel /\ last'.path = "create")
            => /\ last'.ret = rq.km
               /\ last'.ret # rq.prev
               /\ rq.user_id \in DOMAIN kernels'
               /\ kernels'[rq.user_id] = rq.km
         ]_vars
    /\ [](\A rq \in pending : rq.prev # NoKernel => Terminated(rq.prev))

\* a call that found an expired entry has returned its new kernel
C3_Witness ==
    /\ last.path = "create"
    /\ last.prev # NoKernel
    /\ last.ret # last.prev

\* C4: no owner has two kernels started and not terminated, and every kernel
\* that finished creation and was not terminated is its owner's table entry.
C4_OneBackendPerOwner ==
    /\ \A k1, k2 \in KernelIds :
          ( /\ backend[k1].state \in {"starting", "alive"}
            /\ backend[k2].state \in {"starting", "alive"}
            /\ backend[k1].owner = backend[k2].owner )
          => k1 = k2
    /\ \A k \in KernelIds :
          backend[k].state = "alive"
          => /\ backend[k].owner \in DOMAIN kernels
             /\ kernels[backend[k].owner] = k

TimeoutMessage == "Execution timeout"

DeadlinePassed(e) == e.status # "none" /\ now > e.start + e.timeout_s

\* C5: every execute_code call ends by returning a result record; none ends
\* by raising.
C5_NeverRaises == last.exec.status \in {"none", "returned"}

\* C6: an execute_code call whose deadline passed before it read an
\* idle-status message has returned success = false with the timeout message
\* in error.
C6_TimeoutResult ==
    (DeadlinePassed(last.exec) /\ last.exec.loop_end # "idle")
    => /\ last.exec.status = "returned"
       /\ last.exec.success = FALSE
       /\ \E i \in 1..Len(last.exec.error_parts) :
             last.exec.error_parts[i] = TimeoutMessage

RECURSIVE OfType(_, _)
OfType(msgs, msg_type) ==
    IF msgs = <<>> THEN <<>>
    ELSE IF Head(msgs).msg_type = msg_type
         THEN <<Head(msgs)>> \o OfType(Tail(msgs), msg_type)
         ELSE OfType(Tail(msgs), msg_type)

\* C8: an execute_code call returns, with success = true exactly when its
\* read loop ended on an idle-status message and it read no error message,
\* and with an empty error whenever success = true.
C8_SuccessIffIdle ==
    last.exec.status # "none"
    => /\ last.exec.status = "returned"
       /\ last.exec.success =
            (last.exec.loop_end = "idle" /\ OfType(last.exec.consumed, "error") = <<>>)
       /\ last.exec.success => last.exec.error_parts = <<>>

\* C9: an execute_code call returns a record whose output, error and plots
\* hold the fragments of the messages it read, in arrival order: as many
\* error fragments as error messages, and no output or plot fragment when no
\* stream or display message was read.
C9_FragmentsInOrder ==
    last.exec.status # "none"
    => /\ last.exec.status = "returned"
       /\ Len(last.exec.error_parts) = Len(OfType(last.exec.consumed, "error"))
       /\ Len(last.exec.output_parts) + Len(last.exec.plots)
            = Len(OfType(last.exec.consumed, "stream"))
              + Len(OfType(last.exec.consumed, "display_data"))
       /\ (OfType(last.exec.consumed, "execute_result") = <<>>
             => last.exec.result = "None")

\* a step in which a request ended at admission
EndsRejected == last' # last /\ last'.path = "rejected"

\* C12: a request whose code validate_code rejects ends with status 400 and
\* touches nothing else: no kernel is started, the table (kernels,
\* last_activity, working_dirs) and every kernel process are as before, no
\* code is submitted to a kernel and no call is left suspended.
C12_RejectedTouchesNothing ==
    [][EndsRejected
        => /\ last'.http = 400
           /\ last'.ret = NoKernel
           /\ last'.exec = NoExec
           /\ UNCHANGED <<kernels, last_activity, working_dirs, backend,
                          next_kernel, pending>>
      ]_vars

\* the owner of a session that has been idle for some time had a request
\* rejected
C12_Witness ==
    /\ last.path = "rejected"
    /\ last.user_id \in DOMAIN kernels
    /\ last_activity[last.user_id] < now

\* the entries of the owners other than user_id, and the kernels behind them
OthersOf(S, user_id) ==
    [kernels       |-> Without(S.kernels, user_id),
     last_activity |-> Without(S.last_activity, user_id),
     working_dirs  |-> Without(S.working_dirs, user_id),
     backend       |-> [k \in {S.kernels[x] : x \in DOMAIN S.kernels \ {user_id}}
                          |-> S.backend[k]]]

\* C13: in every reachable state, cleanup_kernel for any owner, whether or
\* not the kernel's shutdown raises, finds the entries it deletes (so it
\* raises nothing) and ends with the owner absent from the three maps and
\* from the snapshot; for an absent owner it changes nothing; a second call
\* changes nothing more; the entries and kernels of the other owners are as
\* before.
C13_CleanupContract ==
    /\ DOMAIN last_activity = DOMAIN kernels
    /\ DOMAIN working_dirs \subseteq DOMAIN kernels
    /\ \A user_id \in UserIds, ok \in BOOLEAN :
          LET S1 == cleanup_kernel(Table, user_id, ok)
          IN  /\ user_id \notin DOMAIN S1.kernels
              /\ user_id \notin DOMAIN S1.last_activity
              /\ user_id \notin DOMAIN S1.working_dirs
              /\ user_id \notin DOMAIN get_kernel_info(S1)
              /\ user_id \notin DOMAIN kernels => S1 = Table
              /\ \A ok2 \in BOOLEAN : cleanup_kernel(S1, user_id, ok2) = S1
              /\ OthersOf(S1, user_id) = OthersOf(Table, user_id)

\* cleanup_kernel has run for an owner whose kernel's shutdown raised: the
\* owner is gone from the table while another owner's entry is still there
C13_Witness ==
    /\ last.path = "quota"
    /\ last.prev # NoKernel
    /\ backend[last.prev].state = "kill_failed"
    /\ last.user_id \notin DOMAIN kernels
    /\ last.user_id \notin DOMAIN get_kernel_info(Table)
    /\ DOMAIN kernels # {}

\* shutdown_all has been called and has returned
ShutdownReturned == ~serving /\ cleanup_task \in {"none", "cancelled"}

\* C14: once shutdown_all has returned, the table is empty and the reaper is
\* not running, also when calls of get_or_create_kernel were suspended in
\* the wait for readiness while it ran.
C14_ShutdownLeavesEmpty ==
    ShutdownReturned
    => /\ kernels = << >>
       /\ last_activity = << >>
       /\ working_dirs = << >>
       /\ cleanup_task # "sleeping"

\* the table with only the entry of user_id, if it has one
OnlyOf(S, user_id) ==
    [kernels       |-> [x \in DOMAIN S.kernels \cap {user_id} |-> S.kernels[x]],
     last_activity |-> [x \in DOMAIN S.last_activity \cap {user_id} |-> S.last_activity[x]],
     working_dirs  |-> [x \in DOMAIN S.working_dirs \cap {user_id} |-> S.working_dirs[x]],
     backend       |-> S.backend]

\* a step in which a call for user_id ended with the quota error
EndsQuota(user_id) ==
    /\ last' # last
    /\ last'.path = "quota"
    /\ last'.user_id = user_id

\* C15: a get_or_create_kernel call that ends with the quota error would
\* end with it as well if the table held no entry of any other owner: the
\* entries of other owners, also of owners whose id starts with the
\* caller's id, play no part in the refusal.
C15_QuotaByExactOwner ==
    [][\A user_id \in UserIds :
          EndsQuota(user_id)
          => \A ok \in BOOLEAN :
                CreateBegin(OnlyOf(Table, user_id), user_id, now, next_kernel, ok).outcome
                    = "quota"
      ]_vars

\* C16: a get_or_create_kernel call that ends with the quota error starts no
\* kernel, terminates none and leaves kernels, last_activity and
\* working_dirs as they were before the call.
C16_QuotaConsumesNothing ==
    [][\A user_id \in UserIds :
          EndsQuota(user_id)
          => UNCHANGED <<kernels, last_activity, working_dirs, backend,
                         next_kernel, pending>>
      ]_vars

\* C17: when the wait for readiness of a newly started kernel times out, the
\* call ends with the RuntimeError (500) having shut that kernel down; it
\* stores nothing: kernels, last_activity and working_dirs are as before, so
\* an owner without an entry still has none and the kernel is no owner's
\* entry; every other kernel is as before.
C17_StartTimeoutCleansUp ==
    [][\A rq \in pending \ pending' :
          last'.path = "start_timeout"
          => /\ last'.user_id = rq.user_id
             /\ last'.http = 500
             /\ backend[rq.km].state = "starting"
             /\ Terminated(rq.km)'
             /\ kernels' = kernels
             /\ last_activity' = last_activity
             /\ working_dirs' = working_dirs
             /\ rq.user_id \notin DOMAIN kernels => rq.user_id \notin DOMAIN kernels'
             /\ \A x \in DOMAIN kernels' : kernels'[x] # rq.km
             /\ \A k \in KernelIds \ {rq.km} : backend'[k] = backend[k]
      ]_vars

\* a creation timed out while another owner held a session: its kernel is
\* dead, its owner has no entry and the other entry is in place
C17_Witness ==
    /\ last.path = "start_timeout"
    /\ last.user_id \notin DOMAIN kernels
    /\ DOMAIN kernels # {}
    /\ \E k \in KernelIds : backend[k].state = "dead"
    /\ \A k \in KernelIds : backend[k].state \in {"dead", "alive"}

C19_OneExecutionPerSession ==
    /\ [][\A k \in KernelIds :
            (~backend[k].busy /\ backend'[k].busy)
            => /\ last'.ret = k
               /\ last'.exec.status \in {"returned", "raised"}
               /\ \A rq \in pending' : rq.km # k
         ]_vars
    /\ [](\A rq \in pending :
            /\ backend[rq.km].state = "starting"
            /\ ~backend[rq.km].busy
            /\ \A x \in DOMAIN kernels : kernels[x] # rq.km)

\* a request ran its code on its owner's session while another request of
\* the same owner was in flight
C19_Witness ==
    /\ last.path = "reuse"
    /\ last.exec.status # "none"
    /\ backend[last.ret].busy
    /\ \E rq \in pending : rq.user_id = last.user_id

\* C20: the waits for bootstrap completion and for the next message of an
\* execution are suspension points: a call that leaves the readiness wait
\* with a ready kernel is suspended again before it stores the kernel and
\* before it ends, and a call that submits code to a kernel is suspended
\* before it ends, so that other requests and the reaper can step in between.
C20_WaitsAreSuspensionPoints ==
    [][/\ \A rq \in pending \ pending' :
            last'.path # "start_timeout"
            => /\ \A x \in DOMAIN kernels' : kernels'[x] # rq.km
               /\ last' = last
       /\ \A k \in KernelIds :
            (~backend[k].busy /\ backend'[k].busy) => last' = last
      ]_vars

\* C21: in every reachable state get_kernel_info finds the last_activity
\* entry of every owner it lists (so it raises nothing) and returns one
\* entry for each owner of the table and for no one else, with that owner's
\* kernel, time and directory; a call changes nothing of the manager.
C21_SnapshotReadOnly ==
    /\ [](/\ DOMAIN kernels \subseteq DOMAIN last_activity
          /\ DOMAIN get_kernel_info(Table) = DOMAIN kernels
          /\ \A user_id \in DOMAIN kernels :
                LET e == get_kernel_info(Table)[user_id]
                IN  /\ e.kernel_id = kernels[user_id]
                    /\ e.created_at = last_activity[user_id]
                    /\ e.working_dir = working_dirs[user_id])
    /\ [][(last' # last /\ last'.path = "kernels")
            => /\ last'.count = Cardinality(DOMAIN kernels)
               /\ last'.http = 200
               /\ UNCHANGED <<kernels, last_activity, working_dirs, backend,
                              cleanup_task, pending, next_kernel>>
         ]_vars

\* a snapshot of one session was taken while a creation was in flight and
\* the reaper was running
C21_Witness ==
    /\ last.path = "kernels"
    /\ last.count = 1
    /\ Cardinality(DOMAIN kernels) = 1
    /\ pending # {}
    /\ cleanup_task = "sleeping"

\* C22: every execute_code call returns, and it leaves its read loop only
\* on an idle-status message or on the deadline, never before either and
\* never by an exception of its own.
C22_ReturnsByDeadline ==
    last.exec.status # "none"
    => /\ last.exec.status = "returned"
       /\ last.exec.exc = ""
       /\ last.exec.loop_end \in {"idle", "deadline"}

\* C24: while the reaper runs, a session whose idle timeout has elapsed is
\* eventually removed from the table, unless its owner resolves it again
\* (a call of the owner stores a session with a new last_activity) or
\* shutdown_all cancels the reaper; and the reaper stops running only
\* through the cancel of shutdown_all, never through a sweep, whether or
\* not a shutdown in the sweep raised.
C24_SweepsRecur ==
    /\ \A x \in UserIds :
          (x \in DOMAIN kernels /\ now - last_activity[x] >= timeout
             /\ cleanup_task = "sleeping")
          ~> \/ x \notin DOMAIN kernels
             \/ now - last_activity[x] < timeout
             \/ cleanup_task # "sleeping"
    /\ [][(cleanup_task = "sleeping" /\ cleanup_task' # "sleeping")
            => (cleanup_task' = "cancelling" /\ ~serving')]_vars

\* the only kernel ever started was created by the last call that completed
\* and is dead, the table is empty and the reaper still runs: a sweep
\* removed the session
C24_Witness ==
    /\ cleanup_task = "sleeping"
    /\ serving
    /\ next_kernel = 2
    /\ pending = {}
    /\ last.path = "create"
    /\ last.prev = NoKernel
    /\ Terminated(last.ret)
    /\ kernels = << >>

C26_SameKeys ==
    /\ DOMAIN last_activity = DOMAIN kernels
    /\ DOMAIN working_dirs = DOMAIN kernels

\* an owner holds a session stored after another session was torn down
C26_Witness ==
    /\ DOMAIN kernels # {}
    /\ DOMAIN working_dirs # {}
    /\ \E x \in DOMAIN kernels, k \in KernelIds : Terminated(k) /\ k < kernels[x]

\* a step in which an execute_code call ran
Executes == last' # last /\ last'.exec.status # "none"

\* C27: no session is destroyed while an execution is in flight on it: an
\* execute_code call runs, from the submission of its code to its end,
\* within one step, on a kernel that is alive when the step ends; a step
\* that shuts a session's kernel down runs no execution on that kernel, and
\* no suspended request holds that kernel.
C27_NoDestroyInFlight ==
    /\ [][Executes
            => /\ backend[last'.ret].state \in {"starting", "alive"}
               /\ backend'[last'.ret].state = "alive"
               /\ last'.user_id \in DOMAIN kernels'
               /\ kernels'[last'.user_id] = last'.ret
         ]_vars
    /\ [][\A k \in KernelIds :
            (backend[k].state = "alive" /\ backend'[k].state \in {"dead", "kill_failed"})
            => /\ ~(Executes /\ last'.ret = k)
               /\ \A rq \in pending \cup pending' : rq.km # k
         ]_vars

\* the session the last execution ran on was destroyed afterwards, by a
\* sweep or by an expiry cleanup, while the service was running
C27_Witness ==
    /\ last.exec.status # "none"
    /\ Terminated(last.ret)
    /\ serving
    /\ cleanup_task = "sleeping"

----------------------------------------------------------------------------
(* A stand-alone call of validate_code, on every code up to MaxCodeLen     *)
(* chunks, with the manager either empty or holding one session            *)

OneSession ==
    [kernels       |-> [x \in {<<"u">>} |-> 1],
     last_activity |-> [x \in {<<"u">>} |-> 0],
     working_dirs  |-> [x \in {<<"u">>} |-> "d1"],
     backend       |-> [k \in KernelIds |->
                          IF k = 1 THEN [state |-> "alive", owner |-> <<"u">>,
                                         busy |-> FALSE]
                          ELSE NoBackend]]

InitValidate ==
    /\ \/ /\ kernels = << >>
          /\ last_activity = << >>
          /\ working_dirs = << >>
          /\ backend = [k \in KernelIds |-> NoBackend]
          /\ next_kernel = 1
       \/ /\ kernels = OneSession.kernels
          /\ last_activity = OneSession.last_activity
          /\ working_dirs = OneSession.working_dirs
          /\ backend = OneSession.backend
          /\ next_kernel = 2
    /\ cleanup_task = "none"
    /\ serving = TRUE
    /\ now = 0
    /\ pending = {}
    /\ last = NoCall
    /\ vcode \in Codes
    /\ vresult = <<>>

Validate ==
    /\ vresult = <<>>
    /\ vresult' = validate_code(vcode)
    /\ UNCHANGED <<kernels, last_activity, working_dirs, cleanup_task, serving,
                   backend, next_kernel, now, pending, last, vcode>>

NextValidate == Validate

SpecValidate == InitValidate /\ [][NextValidate]_vars

----------------------------------------------------------------------------
(* Properties of validate_code *)

NotBlank(code) == \E i \in 1..Len(code) : code[i] # " "

Occurs(pattern, code) ==
    \E i \in 0..(Len(code) - Len(pattern)) :
        \A j \in 1..Len(pattern) : code[i + j] = pattern[j]

NoDenylisted(code) ==
    \A i \in 1..Len(dangerous_patterns) : ~Occurs(dangerous_patterns[i], code)

\* C10: validate_code returns (True, "") exactly for code that is not blank,
\* contains no denylisted pattern and compiles; every other code gets False
\* with a non-empty message; the call changes no session state.
C10_ValidateExact ==
    /\ [](vresult # <<>> =>
            /\ (vresult = <<TRUE, <<>>>>)
                 <=> (NotBlank(vcode) /\ NoDenylisted(vcode) /\ Compiles(vcode))
            /\ vresult # <<TRUE, <<>>>> => (vresult[1] = FALSE /\ vresult[2] # <<>>))
    /\ [][vresult' # vresult =>
            UNCHANGED <<kernels, last_activity, working_dirs, backend, pending,
                        cleanup_task>>]_vars

\* a call on a code with a call expression was accepted while a session exists
C10_Witness ==
    /\ vresult = <<TRUE, <<>>>>
    /\ Occurs(<<"x", "(">>, vcode)
    /\ DOMAIN kernels # {}

----------------------------------------------------------------------------
(* Reaper sweeps on every table of live sessions: each owner absent or     *)
(* holding a session last used at some time up to now, its kernel idle or  *)
(* running code; kernel ids in order of creation                           *)

KernelOf(owners, user_id) ==
    IF user_id = <<"u">> THEN 1 ELSE Cardinality(owners \cap {<<"u">>}) + 1

InitSweep ==
    /\ now \in 0..MaxTime
    /\ \E owners \in SUBSET UserIds :
         /\ kernels = [x \in owners |-> KernelOf(owners, x)]
         /\ last_activity \in [owners -> 0..now]
         /\ working_dirs \in [owners -> WorkDirs]
         /\ \E running \in SUBSET owners :
              backend = [k \in KernelIds |->
                           IF \E x \in owners : KernelOf(owners, x) = k
                           THEN LET x == CHOOSE y \in owners : KernelOf(owners, y) = k
                                IN  [state |-> "alive", owner |-> x,
                                     busy |-> x \in running]
                           ELSE NoBackend]
         /\ next_kernel = Cardinality(owners) + 1
    /\ cleanup_task = "sleeping"
    /\ serving = TRUE
    /\ pending = {}
    /\ last = NoCall
    /\ vcode = <<>>
    /\ vresult = <<>>

\* one iteration of _periodic_cleanup, noted as the last thing that ran
SweepCall ==
    /\ cleanup_task = "sleeping"
    /\ \E failed \in SUBSET ExpiredUsers(Table, now) :
          SetTable(cleanup_expired_kernels(Table, now, failed))
    /\ last' = [NoCall EXCEPT !.path = "sweep"]
    /\ UNCHANGED <<cleanup_task, serving, next_kernel, now, pending, vcode, vresult>>

NextSweep ==
    \/ SweepCall
    \/ Tick

SpecSweep == InitSweep /\ [][NextSweep]_vars

\* the owners a sweep at the current time has to remove
Expired == {x \in DOMAIN kernels : now - last_activity[x] >= timeout}

\* C23: a sweep removes exactly the sessions with now - last_activity >=
\* timeout, shutting their kernels down, and leaves the entries and kernels
\* of all others as they were; and in every state a session is reused by
\* get_or_create_kernel exactly when a sweep at that time would keep it.
C23_SweepExactComplement ==
    /\ [][(last' # last /\ last'.path = "sweep")
            => /\ DOMAIN kernels' = DOMAIN kernels \ Expired
               /\ DOMAIN last_activity' = DOMAIN kernels'
               /\ DOMAIN working_dirs' = DOMAIN kernels'
               /\ \A x \in DOMAIN kernels' :
                     /\ kernels'[x] = kernels[x]
                     /\ last_activity'[x] = last_activity[x]
                     /\ working_dirs'[x] = working_dirs[x]
                     /\ backend'[kernels[x]] = backend[kernels[x]]
               /\ \A x \in Expired :
                     backend'[kernels[x]].state \in {"dead", "kill_failed"}
         ]_vars
    /\ [](\A x \in DOMAIN kernels :
            (CreateBegin(Table, x, now, next_kernel, TRUE).outcome = "reuse")
                <=> x \in DOMAIN cleanup_expired_kernels(Table, now, {}).kernels)
    /\ [](\A x \in DOMAIN kernels :
            (CreateBegin(Table, x, now, next_kernel, TRUE).outcome = "reuse")
                <=> x \notin Expired)

\* a sweep removed a session whose idle time had just reached the timeout
\* and kept one that was one unit short of it
C23_Witness ==
    /\ last.path = "sweep"
    /\ \E k \in KernelIds : Terminated(k)
    /\ \E x \in DOMAIN kernels : now - last_activity[x] = timeout - 1

DangerMessage == "Potentially dangerous operation detected: "

\* the patterns of the denylist that occur in the code
PatternsIn(code) ==
    {i \in 1..Len(dangerous_patterns) : Occurs(dangerous_patterns[i], code)}

\* the reason of a rejection names the pattern
Names(result, pattern) ==
    /\ result[1] = FALSE
    /\ Occurs(pattern, result[2])

\* C11: validate_code rejects a code with a reason that names every
\* denylisted pattern the code contains.
C11_NamesEveryPattern ==
    vresult # <<>>
    => \A i \in PatternsIn(vcode) : Names(vresult, dangerous_patterns[i])

\* C11, amended: validate_code rejects a code that contains a denylisted
\* pattern with the reason 'Potentially dangerous operation detected: p'
\* where p is the first pattern, in the order of the list, that the code
\* contains; this holds whether or not the code compiles, and the reason
\* names no other pattern.
C11_NamesFirstPattern ==
    (vresult # <<>> /\ PatternsIn(vcode) # {})
    => \E i \in PatternsIn(vcode) :
          /\ \A j \in PatternsIn(vcode) : i <= j
          /\ vresult = <<FALSE, <<DangerMessage>> \o dangerous_patterns[i]>>
          /\ \A j \in 1..Len(dangerous_patterns) :
                Names(vresult, dangerous_patterns[j]) <=> j = i

\* a code that holds two patterns and does not compile was rejected with the
\* earlier pattern of the list as reason
C11_Witness ==
    /\ vresult # <<>>
    /\ Cardinality(PatternsIn(vcode)) >= 2
    /\ ~Compiles(vcode)
    /\ Names(vresult, dangerous_patterns[1])

====
